---- MODULE Spec2Model ----
(***************************************************************************)
(* A model of the users CRUD service: the payload validators of            *)
(* src/src/models/user.rs and the request handlers of                      *)
(* src/src/handlers/user.rs running concurrently over one SQLite store.    *)
(*                                                                         *)
(* Text is a sequence of characters.  A character is a one-letter string   *)
(* for ASCII and a code-point token ("U+00E9") otherwise, so that the      *)
(* UTF-8 byte length Rust's str::len and str::find work with differs from  *)
(* the number of characters.                                               *)
(***************************************************************************)
EXTENDS Integers, Sequences, FiniteSets, TLC

VARIABLES
    vpc,          \* validator harness: which pure function runs / has run
    email_in,     \* validator harness: argument of is_valid_email
    email_ok,     \* validator harness: result of is_valid_email
    create_in,    \* validator harness: a CreateUser payload
    create_out,   \* validator harness: Result<NewUser, ValidationErrors>
    update_in,    \* validator harness: an UpdateUser payload
    update_out,   \* validator harness: Result<UserChanges, ValidationErrors>
    path_in,      \* validator harness: the {id} segment of GET /users/{id}
    path_out,     \* validator harness: the response to that request
    journal_mode, \* the journal mode of the database: "delete" or "wal"
    users,        \* the committed rows of table users, in insertion order
    next_id,      \* the next fresh identifier Uuid::new_v4 returns
    now,          \* the clock chrono::Utc::now reads
    conn,         \* connection -> the request holding it and how far it got
    served,       \* the number of responses sent
    last,         \* the request answered last, with its response
    deleted,      \* the identifiers a delete has answered 204 for
    inserted,     \* the identifiers whose INSERT has committed, in that order
    preceded      \* the pairs (a, b): the create of a was answered before that of b began

vvars == <<vpc, email_in, email_ok, create_in, create_out, update_in, update_out,
          path_in, path_out>>
svars == <<journal_mode, users, next_id, now, conn, served, last, deleted, inserted, preceded>>
vars == <<vvars, svars>>

-----------------------------------------------------------------------------
(* Bounds of the model                                                     *)

MaxEmailLen == 5
MaxConns == 2
MaxUsers == 2
MaxReq == 3

-----------------------------------------------------------------------------
(* Characters and strings                                                  *)

\* Bytes of the UTF-8 encoding of one character.
len_utf8(c) ==
    CASE c = "U+00E9" -> 2      \* e with acute accent
      [] c = "U+00C9" -> 2      \* E with acute accent
      [] c = "U+3000" -> 3      \* ideographic space
      [] OTHER -> 1

\* char::is_whitespace, on the characters the model uses.
is_whitespace(c) == c \in {" ", "\t", "U+3000"}

\* char::to_lowercase, on the characters the model uses.
char_to_lowercase(c) ==
    CASE c = "A" -> "a" [] c = "B" -> "b" [] c = "C" -> "c" [] c = "D" -> "d"
      [] c = "E" -> "e" [] c = "F" -> "f" [] c = "G" -> "g" [] c = "H" -> "h"
      [] c = "I" -> "i" [] c = "J" -> "j" [] c = "K" -> "k" [] c = "L" -> "l"
      [] c = "M" -> "m" [] c = "N" -> "n" [] c = "O" -> "o" [] c = "P" -> "p"
      [] c = "Q" -> "q" [] c = "R" -> "r" [] c = "S" -> "s" [] c = "T" -> "t"
      [] c = "U" -> "u" [] c = "V" -> "v" [] c = "W" -> "w" [] c = "X" -> "x"
      [] c = "Y" -> "y" [] c = "Z" -> "z"
      [] c = "U+00C9" -> "U+00E9"
      [] OTHER -> c

\* str::len: the length in bytes, the sum of the characters' encoded lengths.
len(s) ==
    LET count(w) == Cardinality({i \in 1..Len(s) : len_utf8(s[i]) = w})
    IN  count(1) + 2 * count(2) + 3 * count(3) + 4 * count(4)

\* str::chars().count(): the length in characters.
chars_count(s) == Len(s)

\* str::is_empty
is_empty(s) == len(s) = 0

\* str::trim: drops leading and trailing whitespace characters.
trim(s) ==
    LET keep == {i \in 1..Len(s) : ~is_whitespace(s[i])}
    IN  IF keep = {} THEN <<>>
        ELSE SubSeq(s, CHOOSE i \in keep : \A j \in keep : i <= j,
                       CHOOSE i \in keep : \A j \in keep : i >= j)

\* str::to_lowercase
to_lowercase(s) == [i \in 1..Len(s) |-> char_to_lowercase(s[i])]

\* The byte offset of the character at index i (1-based) of s.
byte_offset(s, i) == len(SubSeq(s, 1, i - 1))

\* str::matches(c).count()
matches_count(s, c) == Cardinality({i \in 1..Len(s) : s[i] = c})

\* The character index of the first c in s (0 when there is none).
find_index(s, c) ==
    LET hits == {i \in 1..Len(s) : s[i] = c}
    IN  IF hits = {} THEN 0 ELSE CHOOSE i \in hits : \A j \in hits : i <= j

\* The character index of the last c in s (0 when there is none).
rfind_index(s, c) ==
    LET hits == {i \in 1..Len(s) : s[i] = c}
    IN  IF hits = {} THEN 0 ELSE CHOOSE i \in hits : \A j \in hits : i >= j

-----------------------------------------------------------------------------
(* src/src/models/user.rs: is_valid_email                                  *)

\* The same check deciding on the first '.' of the domain (find for rfind).
is_valid_email_first_dot(email) ==
    IF is_empty(email) THEN FALSE
    ELSE IF matches_count(email, "@") # 1 THEN FALSE
    ELSE
        LET at_index    == find_index(email, "@")
            at_position == byte_offset(email, at_index)
        IN  IF at_position = 0 \/ at_position = len(email) - 1 THEN FALSE
            ELSE
                LET domain_part == SubSeq(email, at_index + 1, Len(email))
                    dot_index   == find_index(domain_part, ".")
                    dot         == byte_offset(domain_part, dot_index)
                IN  IF dot_index = 0 THEN FALSE
                    ELSE dot > 0 /\ dot < len(domain_part) - 1

is_valid_email(email) ==
    IF is_empty(email) THEN FALSE
    ELSE IF matches_count(email, "@") # 1 THEN FALSE
    ELSE
        LET at_index    == find_index(email, "@")
            at_position == byte_offset(email, at_index)
        IN  IF at_position = 0 \/ at_position = len(email) - 1 THEN FALSE
            ELSE
                LET local_part  == SubSeq(email, 1, at_index - 1)
                    domain_part == SubSeq(email, at_index + 1, Len(email))
                IN  IF is_empty(local_part) THEN FALSE
                    ELSE IF is_empty(domain_part) THEN FALSE
                    ELSE
                        LET dot_index == rfind_index(domain_part, ".")
                            dot       == byte_offset(domain_part, dot_index)
                        IN  IF dot_index = 0 THEN FALSE
                            ELSE dot > 0 /\ dot < len(domain_part) - 1

-----------------------------------------------------------------------------
(* src/src/models/user.rs: the payload validators                          *)

MaxNameLen == 100

ValidationError(field, message) == [field |-> field, message |-> message]

\* Option<String>
None == [some |-> FALSE, v |-> <<>>]
Some(s) == [some |-> TRUE, v |-> s]

\* Result<_, ValidationErrors>
Ok(name, email) == [ok |-> TRUE, name |-> name, email |-> email, errors |-> <<>>]
Err(errors) == [ok |-> FALSE, name |-> None, email |-> None, errors |-> errors]

create_name_errors(sanitized_name) ==
    IF is_empty(sanitized_name)
    THEN <<ValidationError("name", "Debe contener al menos un caracter")>>
    ELSE IF len(sanitized_name) > MaxNameLen
    THEN <<ValidationError("name", "Debe tener 100 caracteres o menos")>>
    ELSE <<>>

create_email_errors(sanitized_email) ==
    IF is_empty(sanitized_email)
    THEN <<ValidationError("email", "Debe contener al menos un caracter")>>
    ELSE IF ~is_valid_email(sanitized_email)
    THEN <<ValidationError("email", "Formato de correo invalido")>>
    ELSE <<>>

\* The validator stopping at the first failing field.
NewUser_try_from_first_error(value) ==
    LET sanitized_name  == trim(value.name)
        sanitized_email == to_lowercase(trim(value.email))
        name_errors     == create_name_errors(sanitized_name)
        errors          == IF name_errors # <<>> THEN name_errors
                           ELSE create_email_errors(sanitized_email)
    IN  IF errors = <<>>
        THEN Ok(Some(sanitized_name), Some(sanitized_email))
        ELSE Err(errors)

\* The validator keeping the raw text instead of the sanitized text.
NewUser_try_from_raw(value) ==
    LET sanitized_name  == trim(value.name)
        sanitized_email == to_lowercase(trim(value.email))
        errors          == create_name_errors(sanitized_name)
                           \o create_email_errors(sanitized_email)
    IN  IF errors = <<>>
        THEN Ok(Some(value.name), Some(value.email))
        ELSE Err(errors)

\* The validator checking the email before the name.
NewUser_try_from_email_first(value) ==
    LET sanitized_name  == trim(value.name)
        sanitized_email == to_lowercase(trim(value.email))
        errors          == create_email_errors(sanitized_email)
                           \o create_name_errors(sanitized_name)
    IN  IF errors = <<>>
        THEN Ok(Some(sanitized_name), Some(sanitized_email))
        ELSE Err(errors)

\* impl TryFrom<CreateUser> for NewUser
NewUser_try_from(value) ==
    LET sanitized_name  == trim(value.name)
        sanitized_email == to_lowercase(trim(value.email))
        errors          == create_name_errors(sanitized_name)
                           \o create_email_errors(sanitized_email)
    IN  IF errors = <<>>
        THEN Ok(Some(sanitized_name), Some(sanitized_email))
        ELSE Err(errors)

\* The Option left as mapped, without the filter.
filter_nothing(option) == option

\* Option::filter(|s| !s.is_empty()) of an Option already mapped
filter_not_empty(option) == IF option.some /\ ~is_empty(option.v) THEN option ELSE None

\* value.name.map(|name| name.trim().to_string()).filter(|name| !name.is_empty())
sanitized_name_option(name) ==
    filter_not_empty(IF name.some THEN Some(trim(name.v)) ELSE None)

\* value.email.map(|email| email.trim().to_lowercase()).filter(|email| !email.is_empty())
sanitized_email_option(email) ==
    filter_not_empty(IF email.some THEN Some(to_lowercase(trim(email.v))) ELSE None)

\* The validator without the "general" check for an update that changes nothing.
UserChanges_try_from_no_general(value) ==
    LET sanitized_name  == sanitized_name_option(value.name)
        sanitized_email == sanitized_email_option(value.email)
        errors ==
            (IF sanitized_name.some /\ len(sanitized_name.v) > MaxNameLen
             THEN <<ValidationError("name", "Debe tener 100 caracteres o menos")>>
             ELSE <<>>)
            \o
            (IF sanitized_email.some /\ ~is_valid_email(sanitized_email.v)
             THEN <<ValidationError("email", "Formato de correo invalido")>>
             ELSE <<>>)
    IN  IF errors = <<>> THEN Ok(sanitized_name, sanitized_email) ELSE Err(errors)

\* impl TryFrom<UpdateUser> for UserChanges
UserChanges_try_from(value) ==
    LET sanitized_name  == sanitized_name_option(value.name)
        sanitized_email == sanitized_email_option(value.email)
        errors ==
            (IF sanitized_name.some /\ len(sanitized_name.v) > MaxNameLen
             THEN <<ValidationError("name", "Debe tener 100 caracteres o menos")>>
             ELSE <<>>)
            \o
            (IF sanitized_email.some /\ ~is_valid_email(sanitized_email.v)
             THEN <<ValidationError("email", "Formato de correo invalido")>>
             ELSE <<>>)
            \o
            (IF ~sanitized_name.some /\ ~sanitized_email.some
             THEN <<ValidationError("general",
                        "Debe proporcionar al menos un campo para actualizar")>>
             ELSE <<>>)
    IN  IF errors = <<>> THEN Ok(sanitized_name, sanitized_email) ELSE Err(errors)

-----------------------------------------------------------------------------
(* src/src/handlers/user.rs: AppError and its response                     *)

NoUser == [id |-> 0, name |-> <<>>, email |-> <<>>, created_at |-> 0]

AppError_validation(errors) == [kind |-> "Validation", errors |-> errors]
AppError_not_found == [kind |-> "NotFound", errors |-> <<>>]
AppError_from_sqlx == [kind |-> "Sqlx", errors |-> <<>>]

FieldError(e) == [field |-> e.field, message |-> e.message]

\* IntoResponse for AppError sending the first collected entry only.
into_response_first_error(error) ==
    CASE error.kind = "Validation" ->
            [status |-> 422, message |-> "Datos de entrada invalidos",
             has_errors |-> TRUE,
             errors |-> <<FieldError(error.errors[1])>>,
             user |-> NoUser, users |-> <<>>]
      [] error.kind = "NotFound" ->
            [status |-> 404, message |-> "Recurso no encontrado",
             has_errors |-> FALSE, errors |-> <<>>, user |-> NoUser, users |-> <<>>]
      [] OTHER ->
            [status |-> 500, message |-> "Ocurrio un error inesperado",
             has_errors |-> FALSE, errors |-> <<>>, user |-> NoUser, users |-> <<>>]

\* impl IntoResponse for AppError
into_response(error) ==
    CASE error.kind = "Validation" ->
            [status |-> 422, message |-> "Datos de entrada invalidos",
             has_errors |-> TRUE,
             errors |-> [i \in 1..Len(error.errors) |-> FieldError(error.errors[i])],
             user |-> NoUser, users |-> <<>>]
      [] error.kind = "NotFound" ->
            [status |-> 404, message |-> "Recurso no encontrado",
             has_errors |-> FALSE, errors |-> <<>>, user |-> NoUser, users |-> <<>>]
      [] OTHER ->
            [status |-> 500, message |-> "Ocurrio un error inesperado",
             has_errors |-> FALSE, errors |-> <<>>, user |-> NoUser, users |-> <<>>]

\* A success response: a status, and a user or a list of users as its body.
success(status, user, list) ==
    [status |-> status, message |-> "", has_errors |-> FALSE, errors |-> <<>>,
     user |-> user, users |-> list]

NoResponse == success(0, NoUser, <<>>)

-----------------------------------------------------------------------------
(* The validators on their own: each is applied to one input drawn from a  *)
(* bounded set of payloads.                                                *)

Rep(c, k) == [i \in 1..k |-> c]

RECURSIVE StringsUpTo(_, _)
StringsUpTo(alphabet, n) ==
    IF n = 0 THEN {<<>>}
    ELSE LET shorter == StringsUpTo(alphabet, n - 1)
         IN  shorter \cup {Append(s, c) : s \in shorter, c \in alphabet}

EmailAlphabet == {"a", "@", ".", "U+00E9"}
EmailInputs == StringsUpTo(EmailAlphabet, MaxEmailLen)

Pads == {<<>>, <<" ">>, <<"U+3000", "\t">>}

NameLens == {0, 1, MaxNameLen \div 2, MaxNameLen \div 2 + 1,
             MaxNameLen - 1, MaxNameLen, MaxNameLen + 1}
NameInputs ==
    {pad \o Rep(c, k) \o pad : c \in {"a", "U+00E9"}, k \in NameLens, pad \in Pads}

PayloadEmailAlphabet == {"A", "@", "."}
PayloadEmails ==
    {pad \o e \o pad : e \in StringsUpTo(PayloadEmailAlphabet, MaxEmailLen),
                        pad \in {<<>>, <<" ">>}}

CreateInputs == [name : NameInputs, email : PayloadEmails]
UpdateInputs == [name : {None} \cup {Some(n) : n \in NameInputs},
                 email : {None} \cup {Some(e) : e \in PayloadEmails}]

NoCreate == [name |-> <<>>, email |-> <<>>]
NoUpdate == [name |-> None, email |-> None]
NoResult == [result |-> Err(<<>>), response |-> NoResponse]

\* What a write handler does with its payload before it touches the store:
\* try_from(payload).map_err(AppError::validation)?
validated(result) ==
    [result |-> result,
     response |-> IF result.ok THEN NoResponse
                  ELSE into_response(AppError_validation(result.errors))]

\* The validators on their own are not running.
ValidatorOff ==
    /\ vpc = "off"
    /\ email_in = <<>>
    /\ email_ok = FALSE
    /\ create_in = NoCreate
    /\ create_out = NoResult
    /\ update_in = NoUpdate
    /\ update_out = NoResult
    /\ path_in = <<>>
    /\ path_out = NoResponse

-----------------------------------------------------------------------------
(* src/src/handlers/user.rs: the handlers over the store                   *)
(*                                                                         *)
(* The store is the SQLite database behind the pool.  A statement run on   *)
(* the pool commits by itself; update_user runs its SELECT and its UPDATE  *)
(* in one deferred transaction.  A writer holds the database's one write   *)
(* lock from its first write statement to its commit.  A transaction that  *)
(* has read and then asks for the write lock is refused at once (SQLite    *)
(* never lets it wait) when another connection holds that lock, or when    *)
(* another connection has committed a change since it read; every other   *)
(* wait is a guard of the waiting step.  With a rollback journal a commit, *)
(* also one that changed no row, waits until no other transaction holds a  *)
(* read lock; with a write-ahead log it does not.                          *)
(*                                                                         *)
(* A statement does its work on the store inside its await.  The handler's *)
(* future is resumed afterwards and returns the response: between the two  *)
(* steps other requests read, commit and are answered.                     *)

Conns == 1..MaxConns
UserIds == 1..MaxUsers

NoChanges == [some |-> FALSE, name |-> None, email |-> None]

Idle ==
    [op |-> "idle", pc |-> "idle", user_id |-> 0,
     create |-> NoCreate, update |-> NoUpdate,
     name |-> None, email |-> None,
     current_user |-> NoUser, created_at |-> 0,
     response |-> NoResponse,
     stale |-> FALSE, raced_delete |-> FALSE, overlap |-> NoChanges,
     after_204 |-> FALSE]

\* The payloads the clients send.
Ad == <<"A", "d">>
Bo == <<"B", "o">>
abc == <<"A", "@", "B", ".", "C">>
dxc == <<"d", "@", "X", ".", "c">>
Spaced(s) == <<" ">> \o s \o <<"U+3000">>

ServiceCreates ==
    { [name |-> Spaced(Ad), email |-> Spaced(abc)],
      [name |-> <<"\t">>, email |-> <<"A", "@", "B">>] }

ServiceUpdates ==
    { NoUpdate,
      [name |-> Some(<<" ", "\t">>), email |-> Some(<<"U+3000">>)],
      [name |-> Some(Spaced(Bo)), email |-> Some(<<"\t", " ">>)],
      [name |-> Some(<<" ">>), email |-> Some(Spaced(dxc))],
      [name |-> Some(Bo), email |-> None],
      [name |-> Some(Bo), email |-> Some(<<"d", "@", "x", ".">>)] }

\* The rows of the table with the given id (SELECT ... WHERE id = ?).
rows_with_id(table, user_id) == {i \in 1..Len(table) : table[i].id = user_id}

\* fetch_one: the row, or RowNotFound.
fetch_one(table, user_id) ==
    IF rows_with_id(table, user_id) = {} THEN NoUser
    ELSE table[CHOOSE i \in rows_with_id(table, user_id) : TRUE]

row_not_found(user) == user = NoUser

\* INSERT INTO users (id, name, email, created_at) VALUES (?, ?, ?, ?)
insert_row(table, user) == Append(table, user)

\* DELETE FROM users
delete_rows_all(table, user_id) == <<>>

\* DELETE FROM users WHERE id = ?
delete_rows(table, user_id) == SelectSeq(table, LAMBDA u : u.id # user_id)

\* UPDATE users SET name = ? WHERE id = ?
update_rows_name_only(table, user_id, merged_name, merged_email) ==
    [i \in 1..Len(table) |->
        IF table[i].id = user_id
        THEN [table[i] EXCEPT !.name = merged_name]
        ELSE table[i]]

\* UPDATE users SET name = ?, email = ? WHERE id = ?
update_rows(table, user_id, merged_name, merged_email) ==
    [i \in 1..Len(table) |->
        IF table[i].id = user_id
        THEN [table[i] EXCEPT !.name = merged_name, !.email = merged_email]
        ELSE table[i]]

\* The connections holding the write lock, and those holding a read lock only:
\* a transaction that has read, also one whose statement has failed, holds its
\* read lock until it is dropped.
writers == {c \in Conns : conn[c].pc \in {"insert", "delete", "written"}}
readers == {c \in Conns : conn[c].pc \in {"read", "failed"}}

\* May connection c commit now?
can_commit(c) == journal_mode = "wal" \/ readers \ {c} = {}

\* A commit by connection c that changed the database ends the snapshot of
\* every transaction that has read.
after_commit(c, changed, settled_request) ==
    [d \in Conns |->
        IF d = c THEN settled_request
        ELSE IF changed /\ conn[d].pc = "read" THEN [conn[d] EXCEPT !.stale = TRUE]
        ELSE conn[d]]

may_start == served + Cardinality({c \in Conns : conn[c] # Idle}) < MaxReq

\* The pool hands a request the first connection that is idle.
acquire(c) == conn[c] = Idle /\ \A d \in Conns : d < c => conn[d] # Idle

\* The request whose work on the store has ended: its future holds the
\* response it returns once it is resumed.  A failed statement of a
\* transaction leaves the transaction open until then.
settled(request, pc, response) ==
    [Idle EXCEPT !.op = request.op, !.pc = pc, !.user_id = request.user_id,
                 !.create = request.create, !.update = request.update,
                 !.response = response,
                 !.raced_delete = request.raced_delete, !.overlap = request.overlap,
                 !.after_204 = request.user_id \in deleted]

respond(op, user_id, create, update, response, request) ==
    /\ served' = served + 1
    /\ last' = [op |-> op, user_id |-> user_id, create |-> create, update |-> update,
                response |-> response,
                raced_delete |-> request.raced_delete, overlap |-> request.overlap,
                after_204 |-> request.after_204]
    /\ deleted' = IF op = "delete" /\ response.status = 204
                  THEN deleted \cup {user_id} ELSE deleted

\* The handler's future is resumed and returns: the response is sent, and a
\* transaction still open is dropped.
send_response(c) ==
    /\ conn[c].pc \in {"answer", "failed"}
    /\ conn' = [conn EXCEPT ![c] = Idle]
    /\ respond(conn[c].op, conn[c].user_id, conn[c].create, conn[c].update,
               conn[c].response, conn[c])
    /\ UNCHANGED <<journal_mode, users, next_id, now, inserted, preceded, vvars>>

Init ==
    /\ journal_mode \in {"delete", "wal"}
    /\ users = <<>>
    /\ next_id = 1
    /\ now = 1
    /\ conn = [c \in Conns |-> Idle]
    /\ served = 0
    /\ last = [op |-> "none", user_id |-> 0, create |-> NoCreate, update |-> NoUpdate,
               response |-> NoResponse, raced_delete |-> FALSE, overlap |-> NoChanges,
               after_204 |-> FALSE]
    /\ deleted = {}
    /\ inserted = <<>>
    /\ preceded = {}
    /\ ValidatorOff

\* SELECT id, name, email, created_at FROM users ORDER BY rowid DESC
fetch_all_newest_first(table) == [i \in 1..Len(table) |-> table[Len(table) + 1 - i]]

\* SELECT id, name, email, created_at FROM users: the rows come in the scan
\* order of the table, which is the order of insertion.
fetch_all(table) == table

list_users_response(rows) == success(200, NoUser, rows)

\* list_users: the SELECT
list_users(c) ==
    /\ may_start
    /\ acquire(c)
    /\ conn' = [conn EXCEPT ![c] =
                    settled([Idle EXCEPT !.op = "list"], "answer",
                            list_users_response(fetch_all(users)))]
    /\ UNCHANGED <<journal_mode, users, next_id, now, served, last, deleted, inserted, preceded, vvars>>

\* get_user with no arm for sqlx::Error::RowNotFound.
get_user_response_unclassified(user) ==
    IF row_not_found(user) THEN into_response(AppError_from_sqlx)
    ELSE success(200, user, <<>>)

get_user_response(user) ==
    IF row_not_found(user) THEN into_response(AppError_not_found)
    ELSE success(200, user, <<>>)

\* get_user: the SELECT
get_user(c, user_id) ==
    /\ may_start
    /\ acquire(c)
    /\ conn' = [conn EXCEPT ![c] =
                    settled([Idle EXCEPT !.op = "get", !.user_id = user_id], "answer",
                            get_user_response(fetch_one(users, user_id)))]
    /\ UNCHANGED <<journal_mode, users, next_id, now, served, last, deleted, inserted, preceded, vvars>>

\* create_user, the payload failing validation
create_user_invalid(payload) ==
    /\ may_start
    /\ LET validated_user == NewUser_try_from(payload)
       IN  /\ ~validated_user.ok
           /\ respond("create", 0, payload, NoUpdate,
                      validated(validated_user).response, Idle)
    /\ UNCHANGED <<journal_mode, users, next_id, now, conn, inserted, preceded, vvars>>

\* create_user up to the await of its INSERT: validation, Uuid::new_v4 and
\* Utc::now.  The clock may or may not have moved on by its next reading.
create_user_begin(c, payload) ==
    /\ may_start
    /\ acquire(c)
    /\ next_id <= MaxUsers
    /\ LET validated_user == NewUser_try_from(payload)
       IN  /\ validated_user.ok
           /\ conn' = [conn EXCEPT ![c] =
                           [Idle EXCEPT !.op = "create", !.pc = "created",
                                        !.create = payload,
                                        !.user_id = next_id, !.created_at = now,
                                        !.name = validated_user.name,
                                        !.email = validated_user.email]]
    /\ next_id' = next_id + 1
    /\ now' \in {now, now + 1}
    /\ preceded' = preceded \cup
            {<<inserted[i], next_id>> : i \in
                {k \in 1..Len(inserted) :
                    \A d \in Conns : conn[d].op = "create" => conn[d].user_id # inserted[k]}}
    /\ UNCHANGED <<journal_mode, users, served, last, deleted, inserted, vvars>>

\* create_user: the INSERT takes the write lock, once no other connection has it
create_user_insert(c) ==
    /\ conn[c].pc = "created"
    /\ writers = {}
    /\ conn' = [conn EXCEPT ![c].pc = "insert"]
    /\ UNCHANGED <<journal_mode, users, next_id, now, served, last, deleted, inserted,
                   preceded, vvars>>

\* The created user built from the payload instead of the validated user.
created_user_raw(request) ==
    [id |-> request.user_id, name |-> request.create.name,
     email |-> request.create.email, created_at |-> request.created_at]

created_user(request) ==
    [id |-> request.user_id, name |-> request.name.v, email |-> request.email.v,
     created_at |-> request.created_at]

\* create_user: the INSERT commits
create_user_finish(c) ==
    /\ conn[c].pc = "insert"
    /\ can_commit(c)
    /\ users' = insert_row(users, created_user(conn[c]))
    /\ inserted' = Append(inserted, conn[c].user_id)
    /\ UNCHANGED preceded
    /\ conn' = after_commit(c, TRUE,
                            settled(conn[c], "answer",
                                    success(201, created_user(conn[c]), <<>>)))
    /\ UNCHANGED <<journal_mode, next_id, now, served, last, deleted, vvars>>

\* delete_user up to the start of its DELETE
delete_user_begin(c, user_id) ==
    /\ may_start
    /\ acquire(c)
    /\ writers = {}
    /\ conn' = [conn EXCEPT ![c] =
                    [Idle EXCEPT !.op = "delete", !.pc = "delete", !.user_id = user_id]]
    /\ UNCHANGED <<journal_mode, users, next_id, now, served, last, deleted, inserted, preceded, vvars>>

rows_affected(table, user_id) == Cardinality(rows_with_id(table, user_id))

\* The response that always reports success, whatever the DELETE affected.
delete_user_response_unchecked(affected) == success(204, NoUser, <<>>)

delete_user_response(affected) ==
    IF affected = 0 THEN into_response(AppError_not_found)
    ELSE success(204, NoUser, <<>>)

\* A commit of a DELETE marks the transactions that have read the deleted row.
after_delete(c, user_id, changed, settled_request) ==
    [d \in Conns |->
        IF changed /\ d # c /\ conn[d].pc = "read" /\ conn[d].user_id = user_id
        THEN [after_commit(c, changed, settled_request)[d] EXCEPT !.raced_delete = TRUE]
        ELSE after_commit(c, changed, settled_request)[d]]

\* delete_user: the DELETE commits
delete_user_finish(c) ==
    /\ conn[c].pc = "delete"
    /\ can_commit(c)
    /\ users' = delete_rows(users, conn[c].user_id)
    /\ conn' = after_delete(c, conn[c].user_id,
                            rows_affected(users, conn[c].user_id) > 0,
                            settled(conn[c], "answer",
                                    delete_user_response(
                                        rows_affected(users, conn[c].user_id))))
    /\ UNCHANGED <<journal_mode, next_id, now, served, last, deleted, inserted, preceded, vvars>>

\* update_user looking the user up before it validates the payload.
update_user_invalid_after_lookup(user_id, payload) ==
    /\ may_start
    /\ LET requested_changes == UserChanges_try_from(payload)
       IN  /\ ~requested_changes.ok
           /\ respond("update", user_id, NoCreate, payload,
                      IF row_not_found(fetch_one(users, user_id))
                      THEN into_response(AppError_not_found)
                      ELSE validated(requested_changes).response, Idle)
    /\ UNCHANGED <<journal_mode, users, next_id, now, conn, inserted, preceded, vvars>>

\* update_user, the payload failing validation
update_user_invalid(user_id, payload) ==
    /\ may_start
    /\ LET requested_changes == UserChanges_try_from(payload)
       IN  /\ ~requested_changes.ok
           /\ respond("update", user_id, NoCreate, payload,
                      validated(requested_changes).response, Idle)
    /\ UNCHANGED <<journal_mode, users, next_id, now, conn, inserted, preceded, vvars>>

\* update_user up to database_pool.begin()
update_user_begin(c, user_id, payload) ==
    /\ may_start
    /\ acquire(c)
    /\ LET requested_changes == UserChanges_try_from(payload)
       IN  /\ requested_changes.ok
           /\ conn' = [conn EXCEPT ![c] =
                           [Idle EXCEPT !.op = "update", !.pc = "begun",
                                        !.user_id = user_id, !.update = payload,
                                        !.name = requested_changes.name,
                                        !.email = requested_changes.email]]
    /\ UNCHANGED <<journal_mode, users, next_id, now, served, last, deleted, inserted, preceded, vvars>>

\* update_user: the SELECT of the transaction finds no row
update_user_not_found(c) ==
    /\ conn[c].pc = "begun"
    /\ row_not_found(fetch_one(users, conn[c].user_id))
    /\ conn' = [conn EXCEPT ![c] =
                    settled(conn[c], "failed", into_response(AppError_not_found))]
    /\ UNCHANGED <<journal_mode, users, next_id, now, served, last, deleted, inserted, preceded, vvars>>

\* update_user: the SELECT of the transaction reads the current row
update_user_read(c) ==
    /\ conn[c].pc = "begun"
    /\ ~row_not_found(fetch_one(users, conn[c].user_id))
    /\ conn' = [conn EXCEPT ![c].pc = "read",
                            ![c].current_user = fetch_one(users, conn[c].user_id)]
    /\ UNCHANGED <<journal_mode, users, next_id, now, served, last, deleted, inserted, preceded, vvars>>

\* Option::unwrap_or
unwrap_or(option, default) == IF option.some THEN option.v ELSE default

\* The refusal when the SELECT ran outside the transaction: nothing was read
\* in it, so no commit of another connection is noticed.
write_refused_lock_only(c) == writers \ {c} # {}

\* The UPDATE of a transaction is refused: the write lock is taken, or the
\* database has changed since the transaction read.
write_refused(c) == writers \ {c} # {} \/ conn[c].stale

\* update_user: the UPDATE is refused
update_user_busy(c) ==
    /\ conn[c].pc = "read"
    /\ write_refused(c)
    /\ conn' = [conn EXCEPT ![c] =
                    settled(conn[c], "failed", into_response(AppError_from_sqlx))]
    /\ UNCHANGED <<journal_mode, users, next_id, now, served, last, deleted, inserted, preceded, vvars>>

\* update_user: the UPDATE of the merged row runs in the transaction
update_user_write(c) ==
    /\ conn[c].pc = "read"
    /\ ~write_refused(c)
    /\ conn' = [conn EXCEPT
                    ![c].pc = "written",
                    ![c].name = Some(unwrap_or(conn[c].name, conn[c].current_user.name)),
                    ![c].email = Some(unwrap_or(conn[c].email, conn[c].current_user.email))]
    /\ UNCHANGED <<journal_mode, users, next_id, now, served, last, deleted, inserted, preceded, vvars>>

\* The returned user stamped with the time of the update.
updated_user_restamped(request) ==
    [id |-> request.user_id, name |-> request.name.v, email |-> request.email.v,
     created_at |-> now]

updated_user(request) ==
    [id |-> request.user_id, name |-> request.name.v, email |-> request.email.v,
     created_at |-> request.current_user.created_at]

\* A commit of an update is remembered by the updates of the same user that
\* have begun and not yet written.
after_update(c, changed, settled_request) ==
    [d \in Conns |->
        IF d # c /\ conn[d].pc \in {"begun", "read"} /\ conn[d].op = "update"
                /\ conn[d].user_id = conn[c].user_id
        THEN [after_commit(c, changed, settled_request)[d] EXCEPT
                !.overlap = [some |-> TRUE,
                             name |-> UserChanges_try_from(conn[c].update).name,
                             email |-> UserChanges_try_from(conn[c].update).email]]
        ELSE after_commit(c, changed, settled_request)[d]]

\* update_user: transaction.commit()
update_user_commit(c) ==
    /\ conn[c].pc = "written"
    /\ can_commit(c)
    /\ users' = update_rows(users, conn[c].user_id, conn[c].name.v, conn[c].email.v)
    /\ conn' = after_update(c, update_rows(users, conn[c].user_id, conn[c].name.v,
                                           conn[c].email.v) # users,
                            settled(conn[c], "answer",
                                    success(200, updated_user(conn[c]), <<>>)))
    /\ UNCHANGED <<journal_mode, next_id, now, served, last, deleted, inserted, preceded, vvars>>

-----------------------------------------------------------------------------
(* GET /users/:id from the path segment on: the Path<Uuid> extractor, then *)
(* the handler.                                                            *)

\* The value of a hexadecimal digit; 16 for any other character.
hex_value(c) ==
    CASE c = "0" -> 0 [] c = "1" -> 1 [] c = "2" -> 2 [] c = "3" -> 3
      [] c = "4" -> 4 [] c = "5" -> 5 [] c = "6" -> 6 [] c = "7" -> 7
      [] c = "8" -> 8 [] c = "9" -> 9
      [] c \in {"a", "A"} -> 10 [] c \in {"b", "B"} -> 11
      [] c \in {"c", "C"} -> 12 [] c \in {"d", "D"} -> 13
      [] c \in {"e", "E"} -> 14 [] c \in {"f", "F"} -> 15
      [] OTHER -> 16

is_hex_digit(c) == hex_value(c) < 16

\* 32 hexadecimal digits.
parse_simple(text) ==
    Len(text) = 32 /\ \A i \in 1..32 : is_hex_digit(text[i])

\* Groups of 8, 4, 4, 4 and 12 hexadecimal digits with hyphens between them.
parse_hyphenated(text) ==
    /\ Len(text) = 36
    /\ \A i \in 1..36 :
            IF i \in {9, 14, 19, 24} THEN text[i] = "-" ELSE is_hex_digit(text[i])

UrnPrefix == <<"u", "r", "n", ":", "u", "u", "i", "d", ":">>

\* The part of a text that holds the digits: without braces or URN prefix.
uuid_body(text) ==
    IF Len(text) = 38 /\ text[1] = "{" /\ text[38] = "}" THEN SubSeq(text, 2, 37)
    ELSE IF Len(text) = 45 /\ SubSeq(text, 1, 9) = UrnPrefix THEN SubSeq(text, 10, 45)
    ELSE text

\* Uuid::parse_str: None for a text that is not a UUID, else the 32 digits.
Uuid_parse_str(text) ==
    IF uuid_body(text) = text /\ parse_simple(text)
    THEN Some([i \in 1..32 |-> hex_value(text[i])])
    ELSE IF parse_hyphenated(uuid_body(text))
    THEN LET digits == SelectSeq(uuid_body(text), is_hex_digit)
         IN  Some([i \in 1..32 |-> hex_value(digits[i])])
    ELSE None

\* The UUID the model writes as the identifier n.
uuid_of(n) == [i \in 1..32 |-> IF i = 32 THEN n ELSE 0]

\* The identifier the model writes for a UUID; 0 for one no create generates.
user_id_of(uuid) ==
    IF \E n \in UserIds : uuid_of(n) = uuid
    THEN CHOOSE n \in UserIds : uuid_of(n) = uuid
    ELSE 0

\* The response of the Path extractor to a segment it cannot deserialize.
path_rejection ==
    [status |-> 400, message |-> "Invalid URL", has_errors |-> FALSE,
     errors |-> <<>>, user |-> NoUser, users |-> <<>>]

\* GET /users/:id
get_user_route(segment, table) ==
    LET parsed == Uuid_parse_str(segment)
    IN  IF ~parsed.some THEN path_rejection
        ELSE get_user_response(fetch_one(table, user_id_of(parsed.v)))

Next ==
    \/ \E c \in Conns : list_users(c)
    \/ \E c \in Conns, user_id \in UserIds : get_user(c, user_id)
    \/ \E payload \in ServiceCreates : create_user_invalid(payload)
    \/ \E c \in Conns, payload \in ServiceCreates : create_user_begin(c, payload)
    \/ \E c \in Conns : create_user_insert(c)
    \/ \E c \in Conns : create_user_finish(c)
    \/ \E c \in Conns, user_id \in UserIds : delete_user_begin(c, user_id)
    \/ \E c \in Conns : delete_user_finish(c)
    \/ \E user_id \in UserIds, payload \in ServiceUpdates :
            update_user_invalid(user_id, payload)
    \/ \E c \in Conns, user_id \in UserIds, payload \in ServiceUpdates :
            update_user_begin(c, user_id, payload)
    \/ \E c \in Conns : update_user_not_found(c)
    \/ \E c \in Conns : update_user_read(c)
    \/ \E c \in Conns : update_user_busy(c)
    \/ \E c \in Conns : update_user_write(c)
    \/ \E c \in Conns : update_user_commit(c)
    \/ \E c \in Conns : send_response(c)

Spec == Init /\ [][Next]_vars

-----------------------------------------------------------------------------
(* The validators on their own: the specification                          *)

ServiceOff ==
    /\ journal_mode = "delete"
    /\ users = <<>>
    /\ next_id = 1
    /\ now = 1
    /\ conn = [c \in Conns |-> Idle]
    /\ served = 0
    /\ last = [op |-> "none", user_id |-> 0, create |-> NoCreate, update |-> NoUpdate,
               response |-> NoResponse, raced_delete |-> FALSE, overlap |-> NoChanges,
               after_204 |-> FALSE]
    /\ deleted = {}
    /\ inserted = <<>>
    /\ preceded = {}

\* The canonical text of the UUID of identifier n, and its other forms.
simple_text(n) == [i \in 1..32 |-> IF i = 32 THEN <<"1", "2", "3", "4">>[n] ELSE "0"]
hyphenated_text(simple) ==
    SubSeq(simple, 1, 8) \o <<"-">> \o SubSeq(simple, 9, 12) \o <<"-">>
        \o SubSeq(simple, 13, 16) \o <<"-">> \o SubSeq(simple, 17, 20) \o <<"-">>
        \o SubSeq(simple, 21, 32)

PathAlphabet == {"1", "g", "-"}
PathInputs ==
    (StringsUpTo(PathAlphabet, 3) \ {<<>>})
    \cup { simple_text(n) : n \in UserIds }
    \cup { hyphenated_text(simple_text(n)) : n \in UserIds }
    \cup { <<"{">> \o hyphenated_text(simple_text(n)) \o <<"}">> : n \in UserIds }
    \cup { UrnPrefix \o hyphenated_text(simple_text(n)) : n \in UserIds }
    \cup { Rep("F", 32), Rep("0", 31), Rep("0", 33), Rep("0", 36), Rep("g", 32),
           Rep("0", 31) \o <<"-">>,
           <<"{">> \o simple_text(1) \o <<"}">>,
           SubSeq(hyphenated_text(simple_text(1)), 1, 35) \o <<"g">> }

ValidatorInit ==
    /\ ServiceOff
    /\ email_ok = FALSE
    /\ create_out = NoResult
    /\ update_out = NoResult
    /\ path_out = NoResponse
    /\ \/ vpc = "email" /\ email_in \in EmailInputs
          /\ create_in = NoCreate /\ update_in = NoUpdate /\ path_in = <<>>
       \/ vpc = "create" /\ create_in \in CreateInputs
          /\ email_in = <<>> /\ update_in = NoUpdate /\ path_in = <<>>
       \/ vpc = "update" /\ update_in \in UpdateInputs
          /\ email_in = <<>> /\ create_in = NoCreate /\ path_in = <<>>
       \/ vpc = "path" /\ path_in \in PathInputs
          /\ email_in = <<>> /\ create_in = NoCreate /\ update_in = NoUpdate

CheckEmail ==
    /\ vpc = "email"
    /\ email_ok' = is_valid_email(email_in)
    /\ vpc' = "email_done"
    /\ UNCHANGED <<email_in, create_in, create_out, update_in, update_out,
                   path_in, path_out, svars>>

ValidateCreate ==
    /\ vpc = "create"
    /\ create_out' = validated(NewUser_try_from(create_in))
    /\ vpc' = "create_done"
    /\ UNCHANGED <<email_in, email_ok, create_in, update_in, update_out,
                   path_in, path_out, svars>>

ValidateUpdate ==
    /\ vpc = "update"
    /\ update_out' = validated(UserChanges_try_from(update_in))
    /\ vpc' = "update_done"
    /\ UNCHANGED <<email_in, email_ok, create_in, create_out, update_in,
                   path_in, path_out, svars>>

\* GET /users/{path_in}
RouteGetUser ==
    /\ vpc = "path"
    /\ path_out' = get_user_route(path_in, users)
    /\ vpc' = "path_done"
    /\ UNCHANGED <<email_in, email_ok, create_in, create_out, update_in, update_out,
                   path_in, svars>>

ValidatorNext == CheckEmail \/ ValidateCreate \/ ValidateUpdate \/ RouteGetUser

SpecValidate == ValidatorInit /\ [][ValidatorNext]_vars

-----------------------------------------------------------------------------
(* Properties of the validators, checked under SpecValidate                *)

Fields(errors) == [i \in 1..Len(errors) |-> errors[i].field]

AtIndexes(e) == {i \in 1..Len(e) : e[i] = "@"}
DomainOf(e) == SubSeq(e, (CHOOSE i \in AtIndexes(e) : TRUE) + 1, Len(e))
DotIndexes(d) == {i \in 1..Len(d) : d[i] = "."}

\* Exactly one '@', neither the first nor the last character (so the local
\* part and the domain part are both non-empty).
OneInnerAt(e) ==
    /\ Cardinality(AtIndexes(e)) = 1
    /\ e[1] # "@"
    /\ e[Len(e)] # "@"

\* C1 as stated: is_valid_email(e) holds exactly when e has exactly one '@',
\* not at either end, and the domain part contains SOME '.' that is neither
\* its first nor its last character.
C1_SomeInnerDot ==
    vpc = "email_done" =>
        (email_ok <=>
            /\ OneInnerAt(email_in)
            /\ \E i \in DotIndexes(DomainOf(email_in)) :
                    i # 1 /\ i # Len(DomainOf(email_in)))

\* C1 as amended: is_valid_email(e) holds exactly when e has exactly one '@',
\* not at either end, and the domain part contains a '.' whose LAST occurrence
\* is neither the first nor the last character of the domain part.
C1_LastDotInner ==
    vpc = "email_done" =>
        (email_ok <=>
            /\ OneInnerAt(email_in)
            /\ DotIndexes(DomainOf(email_in)) # {}
            /\ \A i \in DotIndexes(DomainOf(email_in)) :
                    (\A j \in DotIndexes(DomainOf(email_in)) : j <= i)
                        => (i # 1 /\ i # Len(DomainOf(email_in))))

\* An accepted address whose domain starts with a '.', and has a later inner one.
C1_Witness ==
    /\ vpc = "email_done"
    /\ email_ok
    /\ Cardinality(DotIndexes(DomainOf(email_in))) = 2
    /\ DomainOf(email_in)[1] = "."

NameIsBad(raw) == trim(raw) = <<>> \/ len(trim(raw)) > MaxNameLen
EmailIsBad(raw) ==
    to_lowercase(trim(raw)) = <<>> \/ ~is_valid_email(to_lowercase(trim(raw)))

\* C6: create validation checks name and email independently; the 422 response
\* lists a name entry exactly when the name is bad and an email entry exactly
\* when the email is bad, name first, and nothing else.
C6_FullErrorSet ==
    vpc = "create_done" =>
        LET name_bad  == NameIsBad(create_in.name)
            email_bad == EmailIsBad(create_in.email)
        IN  /\ create_out.result.ok <=> (~name_bad /\ ~email_bad)
            /\ ~create_out.result.ok =>
                    /\ create_out.response.status = 422
                    /\ create_out.response.has_errors
                    /\ Fields(create_out.response.errors) =
                            (IF name_bad THEN <<"name">> ELSE <<>>)
                            \o (IF email_bad THEN <<"email">> ELSE <<>>)

\* A rejected payload whose name and email are both bad, with both entries.
C6_Witness ==
    /\ vpc = "create_done"
    /\ NameIsBad(create_in.name)
    /\ EmailIsBad(create_in.email)
    /\ Fields(create_out.response.errors) = <<"name", "email">>

\* C7 as stated: the name of a create payload is accepted exactly when the
\* trimmed name has between 1 and 100 characters.
C7_NameLimitInCharacters ==
    vpc = "create_done" =>
        ((\A i \in 1..Len(create_out.result.errors) :
                create_out.result.errors[i].field # "name")
         <=> chars_count(trim(create_in.name)) \in 1..MaxNameLen)

-----------------------------------------------------------------------------
(* Properties of the handlers, checked under Spec                          *)

\* This step sends a response.
Responds == served' = served + 1

\* In this step the store work of the request on connection c ends, and the
\* response it will send is decided.
Settles(c) ==
    /\ conn[c].pc \notin {"answer", "failed"}
    /\ conn'[c].pc \in {"answer", "failed"}

\* In this step the write of the request on connection c commits.
Commits(c) ==
    /\ conn[c].pc \in {"insert", "delete", "written"}
    /\ conn'[c].pc = "answer"

Stored(table, user_id) == {table[i] : i \in rows_with_id(table, user_id)}

\* C2: every persisted user has a trimmed, non-empty name of at most 100
\* characters and a trimmed, lower-cased, valid email: stored as a create
\* payload it passes create validation unchanged.
C2_StoredUsersValid ==
    \A i \in 1..Len(users) :
        LET name  == users[i].name
            email == users[i].email
        IN  /\ trim(name) = name
            /\ name # <<>>
            /\ chars_count(name) <= MaxNameLen
            /\ trim(email) = email
            /\ to_lowercase(email) = email
            /\ is_valid_email(email)
            /\ NewUser_try_from([name |-> name, email |-> email])
                    = Ok(Some(name), Some(email))

\* A row that a create wrote and an update then changed.
C2_Witness ==
    /\ last.op = "update"
    /\ last.response.status = 200
    /\ \E i \in 1..Len(users) : users[i].id = last.user_id /\ users[i].name = Bo

\* C3 as stated: an update whose row a delete removed between the update's read
\* and its write responds 404, and the row is not there afterwards.
C3_RacedUpdateNotFound ==
    (last.op = "update" /\ last.raced_delete) =>
        /\ last.response.status = 404
        /\ rows_with_id(users, last.user_id) = {}

Complementary(a, b) ==
    \/ a.name.some /\ ~a.email.some /\ ~b.name.some /\ b.email.some
    \/ ~a.name.some /\ a.email.some /\ b.name.some /\ ~b.email.some

\* The validated changes of an answered update.
ChangesOf(answered) == UserChanges_try_from(answered.update)

\* C4: when an update commits, to answer 200, and another update of the same
\* user, changing only the other field, committed after it had begun, the
\* stored row carries both new values.
C4_NoLostUpdate ==
    [][\A c \in Conns :
        (/\ Commits(c)
         /\ conn[c].op = "update"
         /\ conn'[c].response.status = 200
         /\ conn[c].overlap.some
         /\ Complementary(conn[c].overlap, ChangesOf(conn[c])))
        => \A u \in Stored(users', conn[c].user_id) :
            /\ u.name = IF ChangesOf(conn[c]).name.some THEN ChangesOf(conn[c]).name.v
                         ELSE conn[c].overlap.name.v
            /\ u.email = IF ChangesOf(conn[c]).email.some THEN ChangesOf(conn[c]).email.v
                          ELSE conn[c].overlap.email.v]_vars

\* Two overlapping updates of one user, one of the name and one of the email,
\* both answered 200, and the row has both new values.
C4_Witness ==
    /\ last.op = "update"
    /\ last.response.status = 200
    /\ last.overlap.some
    /\ Complementary(last.overlap, ChangesOf(last))
    /\ \E u \in Stored(users, last.user_id) :
            u.name = Bo /\ u.email = to_lowercase(dxc)

\* C5: the commit of a successful update keeps the stored value of every field
\* its validated changes leave out and never changes a row's id or
\* created_at, and the update returns the user with the creation timestamp
\* the row had.
C5_UpdateFrame ==
    [][\A c \in Conns :
        (Commits(c) /\ conn[c].op = "update")
        => /\ conn'[c].response.status = 200
           /\ Cardinality(Stored(users, conn[c].user_id)) = 1
           /\ Cardinality(Stored(users', conn[c].user_id)) = 1
           /\ \A before \in Stored(users, conn[c].user_id),
                 after \in Stored(users', conn[c].user_id) :
                 /\ ~ChangesOf(conn[c]).name.some => after.name = before.name
                 /\ ~ChangesOf(conn[c]).email.some => after.email = before.email
                 /\ after.created_at = before.created_at
                 /\ conn'[c].response.user.id = conn[c].user_id
                 /\ conn'[c].response.user.created_at = before.created_at
           /\ Len(users') = Len(users)
           /\ \A i \in 1..Len(users) :
                 /\ users'[i].id = users[i].id
                 /\ users'[i].created_at = users[i].created_at]_vars

\* An update of the name alone answered 200: the row keeps the email and the
\* creation time the create gave it, a later create having moved the clock on.
C5_Witness ==
    /\ last.op = "update"
    /\ last.response.status = 200
    /\ ChangesOf(last).name.some /\ ~ChangesOf(last).email.some
    /\ last.response.user.created_at < now - 1
    /\ \E u \in Stored(users, last.user_id) :
            u.name = Bo /\ u.email = to_lowercase(abc)

Sanitized(payload) ==
    [name |-> trim(payload.name), email |-> to_lowercase(trim(payload.email))]

\* C8: a create is accepted exactly when its sanitized payload is acceptable,
\* and then the returned user has the raw name trimmed and the raw email
\* trimmed and lower-cased; the row its INSERT stores is the user it returns.
C8_CreateSanitizes ==
    [][/\ (Responds /\ last'.op = "create")
          => /\ last'.response.status = 201
                    <=> NewUser_try_from(Sanitized(last'.create)).ok
             /\ last'.response.status = 201 =>
                   /\ last'.response.user.name = trim(last'.create.name)
                   /\ last'.response.user.email
                        = to_lowercase(trim(last'.create.email))
       /\ \A c \in Conns :
            (Commits(c) /\ conn[c].op = "create")
            => /\ conn'[c].response.status = 201
               /\ conn'[c].response.user.name = trim(conn[c].create.name)
               /\ conn'[c].response.user.email
                    = to_lowercase(trim(conn[c].create.email))
               /\ Stored(users', conn[c].user_id) = {conn'[c].response.user}]_vars

\* A create answered 201 whose name had whitespace around it and whose email
\* had whitespace around it and upper-case letters in it.
C8_Witness ==
    /\ last.op = "create"
    /\ last.response.status = 201
    /\ last.create.name # trim(last.create.name)
    /\ trim(last.create.email) # last.create.email
    /\ to_lowercase(trim(last.create.email)) # trim(last.create.email)
    /\ last.response.user \in Stored(users, last.user_id)

Blank(option) == option.some => \A i \in 1..Len(option.v) : is_whitespace(option.v[i])

\* C9: an update whose payload has no field, or only empty or whitespace-only
\* fields, is answered 422 with an entry of field general, whether or not the
\* user exists.
C9_BlankUpdateRejected ==
    (last.op = "update" /\ Blank(last.update.name) /\ Blank(last.update.email)) =>
        /\ last.response.status = 422
        /\ last.response.has_errors
        /\ \E i \in 1..Len(last.response.errors) :
                last.response.errors[i].field = "general"

\* A whitespace-only update of a user that exists, answered 422.
C9_Witness ==
    /\ last.op = "update"
    /\ last.update.name.some /\ last.update.name.v # <<>> /\ Blank(last.update.name)
    /\ last.update.email.some /\ Blank(last.update.email)
    /\ Stored(users, last.user_id) # {}
    /\ last.response.status = 422

\* C10: a delete whose DELETE finds the id stored removes the row and answers
\* 204, one that finds it not stored changes nothing and answers 404; a
\* delete or a get that reaches the store once a delete has answered 204 for
\* its id answers 404.
C10_DeleteThenNotFound ==
    [][\A c \in Conns :
        /\ (Commits(c) /\ conn[c].op = "delete") =>
                IF Stored(users, conn[c].user_id) # {}
                THEN /\ conn'[c].response.status = 204
                     /\ Stored(users', conn[c].user_id) = {}
                ELSE /\ conn'[c].response.status = 404
                     /\ users' = users
        /\ (Settles(c) /\ conn'[c].op \in {"get", "delete"} /\ conn'[c].after_204)
                => conn'[c].response.status = 404
        /\ (conn[c].pc = "answer" /\ conn'[c] = Idle)
                => /\ last'.response = conn[c].response
                   /\ last'.after_204 = conn[c].after_204]_vars

\* A second delete of an id, answered 404 after the first was answered 204.
C10_Witness ==
    /\ last.op = "delete"
    /\ last.after_204
    /\ last.user_id \in deleted
    /\ last.response.status = 404

\* C11: a get, a delete, or an update with a valid payload, of an id that no
\* create has ever generated, is answered 404 and never 500, whatever the store
\* holds and whatever other requests are running.
C11_NeverCreatedNotFound ==
    [][(/\ Responds
        /\ last'.op \in {"get", "delete", "update"}
        /\ last'.user_id >= next_id
        /\ last'.op = "update" => ChangesOf(last').ok)
       => /\ last'.response.status = 404
          /\ last'.response.message = "Recurso no encontrado"]_vars

\* An update with a valid payload of an id never created, answered 404 while
\* the store holds another user.
C11_Witness ==
    /\ last.op = "update"
    /\ ChangesOf(last).ok
    /\ last.user_id >= next_id
    /\ users # <<>>
    /\ last.response.status = 404

\* The identifiers of the rows of a sequence of users, in its order.
Ids(rows) == [i \in 1..Len(rows) |-> rows[i].id]

\* C12: a list is answered 200 with exactly the users stored when it reads,
\* each once, in the order in which they were created: a user whose create
\* was answered before the create of another began comes before the other,
\* and the identifiers listed are the identifiers inserted, less those no
\* longer stored, in the order of insertion; with no user stored the body is
\* the empty sequence.
C12_ListInInsertionOrder ==
    [][\A c \in Conns :
        (Settles(c) /\ conn'[c].op = "list")
        => /\ conn'[c].response.status = 200
           /\ \A i, j \in 1..Len(conn'[c].response.users) :
                 <<conn'[c].response.users[i].id, conn'[c].response.users[j].id>>
                    \in preceded => i < j
           /\ Ids(conn'[c].response.users)
                 = SelectSeq(inserted, LAMBDA id : Stored(users, id) # {})
           /\ \A i \in 1..Len(conn'[c].response.users) :
                 Stored(users, conn'[c].response.users[i].id)
                    = {conn'[c].response.users[i]}
           /\ \A i \in 1..Len(users) :
                 \E j \in 1..Len(conn'[c].response.users) :
                    conn'[c].response.users[j] = users[i]
           /\ users = <<>> => conn'[c].response.users = <<>>]_vars

\* A list of two users, the create of the first answered before the create of
\* the second began: the first comes first.
C12_Witness ==
    /\ last.op = "list"
    /\ last.response.status = 200
    /\ Len(last.response.users) = 2
    /\ <<last.response.users[1].id, last.response.users[2].id>> \in preceded
    /\ Ids(last.response.users) = inserted

\* C13 as stated: GET /users/{id} with a segment that is not a UUID is answered
\* 404, the status of an identifier that is not stored.
C13_MalformedIdNotFound ==
    (vpc = "path_done" /\ ~Uuid_parse_str(path_in).some) => path_out.status = 404

\* The entries validation collected for an answered create or update, in order.
CollectedErrors(answered) ==
    IF answered.op = "create" THEN NewUser_try_from(answered.create).errors
    ELSE ChangesOf(answered).errors

\* C14: a response is a success or one of three failures.  A 422 carries the
\* fixed message and every (field, message) entry validation collected, in
\* order; a 404 and a 500 carry their fixed message and no errors array; no
\* failure carries a user; an update whose UPDATE the store refuses never
\* writes: it leaves the rows as they were and is answered 500.
C14_ErrorShapes ==
    [][/\ Responds =>
            /\ last'.response.status \in {200, 201, 204, 404, 422, 500}
            /\ last'.response.status = 422 =>
                    /\ last'.op \in {"create", "update"}
                    /\ last'.response.message = "Datos de entrada invalidos"
                    /\ last'.response.has_errors
                    /\ last'.response.errors # <<>>
                    /\ last'.response.errors = CollectedErrors(last')
            /\ last'.response.status = 404 =>
                    /\ last'.response.message = "Recurso no encontrado"
                    /\ ~last'.response.has_errors
                    /\ last'.response.errors = <<>>
            /\ last'.response.status = 500 =>
                    /\ last'.response.message = "Ocurrio un error inesperado"
                    /\ ~last'.response.has_errors
                    /\ last'.response.errors = <<>>
            /\ last'.response.status \in {404, 422, 500} =>
                    last'.response.user = NoUser /\ last'.response.users = <<>>
       /\ \A c \in Conns :
            /\ (conn[c].pc = "read" /\ write_refused(c)) =>
                    /\ conn'[c].pc \in {"read", "failed"}
                    /\ conn'[c].pc = "failed" =>
                            /\ conn'[c].response.status = 500
                            /\ users' = users
            /\ (conn[c].pc = "failed" /\ conn'[c] # conn[c]) =>
                    /\ Responds
                    /\ last'.response = conn[c].response
                    /\ last'.response.status \in {404, 500}
                    /\ users' = users]_vars

\* An update of a stored user with a valid payload that the store refused,
\* answered 500 with the fixed message and no errors array.
C14_Witness ==
    /\ last.op = "update"
    /\ ChangesOf(last).ok
    /\ Stored(users, last.user_id) # {}
    /\ last.response.status = 500
    /\ last.response.message = "Ocurrio un error inesperado"
    /\ ~last.response.has_errors

\* C15: the user a successful create or update returns is the user its commit
\* persists, and a get returns the user persisted when it reads: a get of the
\* same id that reads next after the commit is answered 200 with the returned
\* user, same id, name, email and created_at.
C15_ReturnedIsPersisted ==
    [][\A c \in Conns :
        /\ (Commits(c) /\ conn[c].op \in {"create", "update"})
            => /\ conn'[c].response.status \in {200, 201}
               /\ get_user_response(fetch_one(users', conn[c].user_id))
                    = success(200, conn'[c].response.user, <<>>)
        /\ (Settles(c) /\ conn'[c].op = "get")
            => conn'[c].response
                    = get_user_response(fetch_one(users, conn'[c].user_id))
        /\ (conn[c].pc = "answer" /\ conn'[c] = Idle)
            => last'.response = conn[c].response]_vars

\* The third response: a get of the user that a create and then an update of
\* the email have returned.
C15_Witness ==
    /\ served = 3
    /\ last.op = "get"
    /\ last.response.status = 200
    /\ last.response.user.name = Ad
    /\ last.response.user.email = to_lowercase(dxc)
    /\ last.response.user \in Stored(users, last.user_id)

\* A field of an update payload that is present and empty or whitespace-only.
PresentBlank(option) == option.some /\ Blank(option)

\* The update payloads with one field present but blank and the other valid.
BlankAndValid(update) ==
    \/ PresentBlank(update.name) /\ update.email.some /\ ~EmailIsBad(update.email.v)
    \/ PresentBlank(update.email) /\ update.name.some /\ ~NameIsBad(update.name.v)

\* C16: an update whose name is present but blank and whose email is valid is
\* never answered 422; when its read finds no row it answers 404; when it
\* commits it has set the email to the sanitized email of the payload and kept
\* the stored name, and it answers 200 with that row.  The same holds with
\* name and email exchanged.
C16_BlankFieldIsAbsent ==
    [][/\ (Responds /\ last'.op = "update" /\ BlankAndValid(last'.update))
          => /\ last'.response.status \in {200, 404, 500}
             /\ ~last'.response.has_errors
       /\ \A c \in Conns :
            (Settles(c) /\ conn'[c].op = "update" /\ BlankAndValid(conn'[c].update))
            => /\ conn'[c].response.status = 404
                    => Stored(users', conn'[c].user_id) = {}
               /\ conn'[c].response.status = 200 <=> Commits(c)
               /\ Commits(c) =>
                    \A before \in Stored(users, conn[c].user_id) :
                        LET after == IF PresentBlank(conn[c].update.name)
                                     THEN [before EXCEPT !.email =
                                            to_lowercase(trim(conn[c].update.email.v))]
                                     ELSE [before EXCEPT !.name =
                                            trim(conn[c].update.name.v)]
                        IN  /\ Stored(users', conn[c].user_id) = {after}
                            /\ conn'[c].response.user = after]_vars

\* An update with a whitespace-only name and a valid email, answered 200: the
\* row has the name its create gave it and the email of the update.
C16_Witness ==
    /\ last.op = "update"
    /\ PresentBlank(last.update.name)
    /\ last.update.name.v # <<>>
    /\ last.response.status = 200
    /\ last.response.user.name = Ad
    /\ last.response.user.email = to_lowercase(dxc)
    /\ Stored(users, last.user_id) = {last.response.user}

\* The connections a request holds.
Busy(connections) == {c \in Conns : connections[c] # Idle}

\* C17: a create or an update whose payload fails validation is answered 422
\* having taken no connection and run no statement, so an invalid update of an
\* id that is not stored is answered 422 and not 404; and a request ends with
\* one response: a step that responds frees at most the one connection of the
\* request it answers, and no other step frees a connection.
C17_ValidationFirst ==
    [][/\ (/\ Responds
           /\ \/ last'.op = "create" /\ ~NewUser_try_from(last'.create).ok
              \/ last'.op = "update" /\ ~ChangesOf(last').ok)
          => /\ last'.response.status = 422
             /\ conn' = conn
             /\ users' = users
             /\ next_id' = next_id
       /\ Responds => /\ Busy(conn') \subseteq Busy(conn)
                      /\ Cardinality(Busy(conn) \ Busy(conn')) <= 1
       /\ ~Responds => served' = served /\ Busy(conn) \subseteq Busy(conn')]_vars

\* An update with an invalid email of an id that is not stored, answered 422
\* with the entry of the email, while another user is stored.
C17_Witness ==
    /\ last.op = "update"
    /\ Stored(users, last.user_id) = {}
    /\ users # <<>>
    /\ last.response.status = 422
    /\ Fields(last.response.errors) = <<"email">>

\* The rows of a table that belong to other users than the given one, in order.
Others(table, user_id) ==
    LET keep == {i \in 1..Len(table) : table[i].id # user_id}
        RECURSIVE from(_)
        from(i) == IF i > Len(table) THEN <<>>
                   ELSE IF i \in keep THEN <<table[i]>> \o from(i + 1)
                   ELSE from(i + 1)
    IN  from(1)

\* C18: the rows change only in the step in which a create, an update or a
\* delete commits, once for a request.  The create adds one row, of a new id,
\* after the rows there were, and answers 201; the update and the delete
\* leave the rows of every other user as they were, the update keeping one
\* row of its user and answering 200, the delete keeping none and answering
\* 204 when there was one and 404 when there was none.  Every other step,
\* so every get, list, 422, 404 and 500, leaves the rows unchanged.
C18_OneMutation ==
    [][/\ \A c \in Conns :
            Commits(c) =>
                IF conn[c].op = "create"
                THEN /\ Stored(users, conn[c].user_id) = {}
                     /\ users' = Append(users, conn'[c].response.user)
                     /\ conn'[c].response.status = 201
                ELSE IF conn[c].op = "update"
                THEN /\ Others(users', conn[c].user_id) = Others(users, conn[c].user_id)
                     /\ Len(users') = Len(users)
                     /\ Cardinality(Stored(users', conn[c].user_id)) = 1
                     /\ conn'[c].response.status = 200
                ELSE /\ conn[c].op = "delete"
                     /\ Others(users', conn[c].user_id) = Others(users, conn[c].user_id)
                     /\ Stored(users', conn[c].user_id) = {}
                     /\ conn'[c].response.status
                            = IF Stored(users, conn[c].user_id) # {} THEN 204 ELSE 404
       /\ (\A c \in Conns : ~Commits(c)) => users' = users
       /\ \A c \in Conns :
            conn[c].pc = "answer" => ~Commits(c) /\ conn'[c] \in {conn[c], Idle}]_vars

\* A delete answered 204 that left the row of another user in place.
C18_Witness ==
    /\ last.op = "delete"
    /\ last.response.status = 204
    /\ Len(users) = 1
    /\ users[1].id # last.user_id
    /\ users[1].id \in {inserted[i] : i \in 1..Len(inserted)}

-----------------------------------------------------------------------------
(* A further property of the validators, checked under SpecValidate         *)

\* C19: a validation that fails has entries.  Those of a create are one entry
\* of name, or one of email, or one of name followed by one of email; those of
\* an update are one entry of general alone, or one of name, or one of email,
\* or one of name followed by one of email.  The 422 response lists the same.
C19_ErrorSetShape ==
    /\ (vpc = "create_done" /\ ~create_out.result.ok) =>
            /\ Fields(create_out.result.errors)
                    \in {<<"name">>, <<"email">>, <<"name", "email">>}
            /\ create_out.response.status = 422
            /\ Fields(create_out.response.errors) = Fields(create_out.result.errors)
    /\ (vpc = "update_done" /\ ~update_out.result.ok) =>
            /\ Fields(update_out.result.errors)
                    \in {<<"general">>, <<"name">>, <<"email">>, <<"name", "email">>}
            /\ update_out.response.status = 422
            /\ Fields(update_out.response.errors) = Fields(update_out.result.errors)

\* An update whose name is too long and whose email is not valid: an entry of
\* name, then one of email, and none of general.
C19_Witness ==
    /\ vpc = "update_done"
    /\ update_in.name.some /\ update_in.email.some
    /\ Fields(update_out.response.errors) = <<"name", "email">>

====
